---------------------------- MODULE Spec2Model ----------------------------
(***************************************************************************)
(* A model of termtool (src/termtool.py): the subcommand()/argument()     *)
(* decorators, the per-tool config file, the -v/-q log level action, the  *)
(* assembly of the argument parser, the logging configuration and main(). *)
(*                                                                         *)
(* Python strings are sequences of one-character strings, so that line    *)
(* splitting, newline stripping and lexicographic comparison are computed *)
(* character by character.  An optional value (None or a value, a missing *)
(* or a present attribute or dict key) is the empty or a one-element      *)
(* sequence.                                                               *)
(***************************************************************************)
EXTENDS Integers, Sequences, FiniteSets, TLC

VARIABLES
    clsArguments,   \* class -> the `_arguments` list in that class's own __dict__ (optional)
    decorated,      \* class -> the argument declarations argument() was applied with, in order
    subcommands,    \* the tool class's `_subcommands` list: the decorated functions, in dict order
    definedAs,      \* the tool's methods as its class body wrote them: def and decorators
    parser,         \* the parser the latest build_arg_parser() call returned (optional)
    fsExists,       \* whether ~/.toolname exists
    fsContent,      \* its content, a string
    fsMode,         \* its permission bits
    umask,          \* the process's file creation mask
    written,        \* the argument list of the latest write_config_file() call (optional)
    readResult,     \* what the latest read_config_file() call returned
    lastOp,         \* the latest config file operation
    rootHandlers,   \* the handlers of the process-wide root logger
    rootLevel,      \* the root logger's level
    emitted,        \* how many times the latest "Set log level" record was written to stderr
    stderrTty,      \* whether sys.stderr is a terminal
    flagsLeft,      \* -v/-q occurrences the parser has still to hand to the log level action
    flagsDone,      \* those it has handed over, in command-line order
    nsLevel,        \* namespace.loglevel while they are handed over
    freshSubNamespace, \* whether the argparse in use parses a subcommand into a namespace of its own
    sysArgv,        \* sys.argv[1:], the command line of the process
    run,            \* the latest main() call: its arguments, namespace and outcome
    runs            \* how many operations have been performed in this process

classVars == <<clsArguments, decorated>>
toolVars  == <<subcommands, definedAs, parser>>
fsVars    == <<fsExists, fsContent, fsMode, umask, written, readResult, lastOp>>
logVars   == <<rootHandlers, rootLevel, emitted, stderrTty>>
levelVars == <<flagsLeft, flagsDone, nsLevel>>
mainVars  == <<freshSubNamespace, sysArgv, run>>
vars == <<classVars, toolVars, fsVars, logVars, levelVars, mainVars, runs>>

-----------------------------------------------------------------------------
(* Bounds of the model. *)

MaxFlags == 4        \* -v/-q occurrences on one command line (log level walk)
MaxArgv == 3         \* tokens in the argv given to main()
MaxRuns == 2         \* main()/configure_tool()/build_arg_parser() calls in one process
MaxMethods == 2      \* decorated methods of a tool class
MaxDecorations == 3  \* argument() applications to classes
MaxArgs == 2         \* arguments in one write_config_file() call
MaxArgLen == 2       \* characters in one such argument

-----------------------------------------------------------------------------
(* Python values. *)

None == <<>>
Some(x) == <<x>>
IsSome(o) == Len(o) = 1
Get(o) == o[1]

NL == "\n"

\* ord(c) of the characters the model uses: str comparison is by code point.
Ord(c) ==
    CASE c = NL -> 10
      [] c = "-" -> 45
      [] c = "a" -> 97
      [] c = "b" -> 98
      [] c = "g" -> 103
      [] c = "q" -> 113
      [] c = "v" -> 118

\* s < t for two str: the first differing character decides, a proper prefix is less.
RECURSIVE StrLess(_, _)
StrLess(s, t) ==
    IF t = <<>> THEN FALSE
    ELSE IF s = <<>> THEN TRUE
    ELSE IF Head(s) = Head(t) THEN StrLess(Tail(s), Tail(t))
    ELSE Ord(Head(s)) < Ord(Head(t))

\* All sequences over S of length at most n.
SeqsUpTo(S, n) == UNION {[1..k -> S] : k \in 0..n}

RECURSIVE Reversed(_)
Reversed(s) == IF s = <<>> THEN <<>> ELSE Append(Reversed(Tail(s)), Head(s))

\* seq[k] for a Python int k: negative k counts from the end; None is IndexError.
PyItem(seq, k) ==
    IF k >= 0 /\ k < Len(seq) THEN Some(seq[k + 1])
    ELSE IF k < 0 /\ k >= -Len(seq) THEN Some(seq[Len(seq) + k + 1])
    ELSE None

-----------------------------------------------------------------------------
(* Termtool._LogLevelAddAction *)

LEVELS == <<"CRITICAL", "ERROR", "WARNING", "INFO", "DEBUG">>

\* LEVELS.index(level), 0-based.
LevelIndex(level) == (CHOOSE i \in 1..Len(LEVELS) : LEVELS[i] = level) - 1

OptV == <<"-", "v">>
OptQ == <<"-", "q">>

\* The const each option is registered with: const=1 for -v, const=-1 for -q.
ConstOf(opt) == IF opt = OptV THEN Some(1) ELSE Some(-1)

\* __call__: the namespace's loglevel after one occurrence of an option with `const`.
LogLevelAdd(level, const) ==
    LET index == LevelIndex(level)
        addend == IF IsSome(const) THEN Get(const) ELSE 1
        item == PyItem(LEVELS, index + addend)
    IN  IF IsSome(item) THEN Get(item) ELSE level

-----------------------------------------------------------------------------
(* argument(): the decorator applied to tool classes. *)

\* Termtool and three tool classes: Base(Termtool), SubA(Base), SubB(Base).
Classes == {"Termtool", "Base", "SubA", "SubB"}

\* The method resolution order attribute lookup follows (object holds no _arguments).
Mro(c) ==
    CASE c = "Termtool" -> <<"Termtool">>
      [] c = "Base" -> <<"Base", "Termtool">>
      [] c = "SubA" -> <<"SubA", "Base", "Termtool">>
      [] c = "SubB" -> <<"SubB", "Base", "Termtool">>

OptG == <<"-", "-", "g">>
OptA == <<"-", "-", "a">>
\* The argument declarations used: store_true flags, as docs/example.py's --csv.
ArgDecls == {OptG, OptA}

\* The class whose __dict__ answers the lookup `fn._arguments` (None: AttributeError).
ArgumentsOwner(dicts, c) ==
    LET hits == {i \in 1..Len(Mro(c)) : IsSome(dicts[Mro(c)[i]])}
    IN  IF hits = {} THEN None
        ELSE Some(Mro(c)[CHOOSE i \in hits : \A j \in hits : i <= j])

\* fn._arguments as the attribute lookup returns it.
GetArguments(dicts, c) ==
    LET owner == ArgumentsOwner(dicts, c)
    IN  IF IsSome(owner) THEN dicts[Get(owner)] ELSE None

\* argument(decl)(c): append to the list the lookup finds, else to a new list set on c.
ArgumentDecor(dicts, decl, c) ==
    LET owner == ArgumentsOwner(dicts, c)
    IN  IF IsSome(owner)
        THEN [dicts EXCEPT ![Get(owner)] = Some(Append(Get(@), decl))]
        ELSE [dicts EXCEPT ![c] = Some(<<decl>>)]

\* The global arguments build_arg_parser registers for an instance of c, in order.
ClassArguments(dicts, c) ==
    LET found == GetArguments(dicts, c)
    IN  IF IsSome(found) THEN Reversed(Get(found)) ELSE <<>>

DecorateClass(c, decl) ==
    /\ Len(decorated["Termtool"]) + Len(decorated["Base"])
         + Len(decorated["SubA"]) + Len(decorated["SubB"]) < MaxDecorations
    /\ clsArguments' = ArgumentDecor(clsArguments, decl, c)
    /\ decorated' = [decorated EXCEPT ![c] = Append(@, decl)]
    /\ UNCHANGED <<toolVars, fsVars, logVars, levelVars, mainVars, runs>>

-----------------------------------------------------------------------------
(* The config file: write_config_file() and read_config_file(). *)

Mode666 == {"ur", "uw", "gr", "gw", "or", "ow"}
Mode644 == {"ur", "uw", "gr", "or"}
Mode600 == {"ur", "uw"}
GroupOther == {"gr", "gw", "gx", "or", "ow", "ox"}
Umask077 == GroupOther
Umask022 == {"gw", "ow"}
Umask000 == {}

RECURSIVE Concat(_)
Concat(strs) == IF strs = <<>> THEN <<>> ELSE Head(strs) \o Concat(Tail(strs))

\* What the write loop puts in the file: each argument followed by a newline.
FileText(args) == Concat([i \in 1..Len(args) |-> args[i] \o <<NL>>])

\* file.readlines(): the content cut after every newline; a last line without one is kept.
RECURSIVE ReadLinesFrom(_, _)
ReadLinesFrom(content, cur) ==
    IF content = <<>> THEN (IF cur = <<>> THEN <<>> ELSE <<cur>>)
    ELSE IF Head(content) = NL
         THEN <<Append(cur, NL)>> \o ReadLinesFrom(Tail(content), <<>>)
         ELSE ReadLinesFrom(Tail(content), Append(cur, Head(content)))

ReadLines(content) == ReadLinesFrom(content, <<>>)

RECURSIVE LStrip(_, _)
LStrip(s, ch) == IF s # <<>> /\ Head(s) = ch THEN LStrip(Tail(s), ch) ELSE s

\* s.strip(ch): every leading and every trailing ch removed.
Strip(s, ch) == Reversed(LStrip(Reversed(LStrip(s, ch)), ch))

\* read_config_file() on a file system holding (or not) the tool's file.
ReadConfig(exists, content) ==
    IF ~exists THEN <<>>
    ELSE LET lines == ReadLines(content)
         IN  [i \in 1..Len(lines) |-> Strip(lines[i], NL)]

\* The mode open(filepath, 'w') leaves: a new file gets 0666 & ~umask, an existing one
\* is truncated and keeps its mode.
ModeAfterOpenW(exists, mode, mask) == IF exists THEN mode ELSE Mode666 \ mask

ConfigChars == {"a", NL}
ConfigArgs == SeqsUpTo(ConfigChars, MaxArgLen)

WriteConfigFile(args) ==
    /\ umask' = Umask077
    /\ fsMode' = ModeAfterOpenW(fsExists, fsMode, umask')
    /\ fsExists' = TRUE
    /\ fsContent' = FileText(args)
    /\ written' = Some(args)
    /\ lastOp' = "write"
    /\ UNCHANGED <<readResult, classVars, toolVars, logVars, levelVars, mainVars, runs>>

ReadConfigFile ==
    /\ readResult' = ReadConfig(fsExists, fsContent)
    /\ lastOp' = "read"
    /\ UNCHANGED <<fsExists, fsContent, fsMode, umask, written>>
    /\ UNCHANGED <<classVars, toolVars, logVars, levelVars, mainVars, runs>>

-----------------------------------------------------------------------------
(* The log level action, one occurrence at a time. *)

LogLevelAddCall ==
    /\ flagsLeft # <<>>
    /\ nsLevel' = LogLevelAdd(nsLevel, ConstOf(Head(flagsLeft)))
    /\ flagsDone' = Append(flagsDone, Head(flagsLeft))
    /\ flagsLeft' = Tail(flagsLeft)
    /\ UNCHANGED <<classVars, toolVars, fsVars, logVars, mainVars, runs>>

-----------------------------------------------------------------------------
(* subcommand() and the tool class's _subcommands. *)

\* A function defined in a tool class body: its __name__, __doc__ and the argument
\* declarations argument() left on it (fn._arguments, in application order).
PlainFn(name, doc, arguments) == [name |-> name, doc |-> doc, arguments |-> arguments]

\* subcommand(name, **kwargs)(fn): fn tagged with (name or fn.__name__, kwargs).
SubcommandDecor(name, kwargs, fn) ==
    [name |-> fn.name, doc |-> fn.doc, arguments |-> fn.arguments,
     tag |-> [name |-> IF IsSome(name) /\ Get(name) # <<>> THEN Get(name) ELSE fn.name,
              kwargs |-> kwargs]]

\* A build that sorted by the function's own identifier.
SortKey_ByIdentifier(command) == command.name

\* The key build_arg_parser sorts the commands by: c._subcommand[0].
SortKey(command) == command.tag.name

\* sorted(): a stable insertion sort by SortKey under str comparison.
RECURSIVE InsertSorted(_, _)
InsertSorted(sorted, command) ==
    IF sorted = <<>> THEN <<command>>
    ELSE IF StrLess(SortKey(command), SortKey(Head(sorted)))
         THEN <<command>> \o sorted
         ELSE <<Head(sorted)>> \o InsertSorted(Tail(sorted), command)

RECURSIVE SortedCommands(_)
SortedCommands(commands) ==
    IF commands = <<>> THEN <<>>
    ELSE InsertSorted(SortedCommands(SubSeq(commands, 1, Len(commands) - 1)),
                      commands[Len(commands)])

\* A dict without one of its keys.
WithoutKey(dict, key) == [k \in DOMAIN dict \ {key} |-> dict[k]]

\* about_kwargs after the try block: pop('description') removes the key from the dict
\* the function's tag holds; a KeyError leaves the dict as it is.
PopDescription(kwargs) == WithoutKey(kwargs, "description")

\* The description the sub-parser is built with: the popped one, else the docstring.
SubparserDescription(command) ==
    IF "description" \in DOMAIN command.tag.kwargs
    THEN command.tag.kwargs["description"]
    ELSE command.doc

\* A build that recorded the attribute of the command's name, not the command.
SubparserFunc_ByCommandName(command) == command.tag.name

\* The callable a sub-parser records: set_defaults(func=command).
SubparserFunc(command) == command.name

-----------------------------------------------------------------------------
(* build_arg_parser() *)

\* The class of the tool instance main() runs on.
ToolClass == "Base"

\* The options of global_parser: -v, -q, then the class's arguments.
GlobalOptions(dicts) == <<OptV, OptQ>> \o ClassArguments(dicts, ToolClass)

\* One add_parser() call: the sub-parser of a command.
Subparser(dicts, command) ==
    [name |-> command.tag.name,
     description |-> SubparserDescription(command),
     kwargs |-> PopDescription(command.tag.kwargs),
     func |-> SubparserFunc(command),
     options |-> GlobalOptions(dicts) \o Reversed(command.arguments)]

\* The parser returned, its sub-parsers in the order they were registered.
BuiltParser(dicts, commands) ==
    LET ordered == SortedCommands(commands)
    IN  [options |-> GlobalOptions(dicts),
         subparsers |-> [i \in 1..Len(ordered) |-> Subparser(dicts, ordered[i])]]

\* The tool's functions after the build: each one's kwargs dict has lost 'description'.
CommandsAfterBuild(commands) ==
    [i \in 1..Len(commands) |->
        [commands[i] EXCEPT !.tag.kwargs = PopDescription(@)]]

BuildArgParserCall ==
    /\ runs < MaxRuns
    /\ runs' = runs + 1
    /\ parser' = Some(BuiltParser(clsArguments, subcommands))
    /\ subcommands' = CommandsAfterBuild(subcommands)
    /\ UNCHANGED <<definedAs, classVars, fsVars, logVars, levelVars, mainVars>>

-----------------------------------------------------------------------------
(* parser.parse_args(): argparse on the parser build_arg_parser assembles. *)

\* The sub-parser a subcommand token selects: add_parser() stores each under its name,
\* a later one replacing an earlier one of the same name.  None: invalid choice.
Choice(p, name) ==
    LET hits == {i \in 1..Len(p.subparsers) : p.subparsers[i].name = name}
    IN  IF hits = {} THEN None
        ELSE Some(p.subparsers[CHOOSE i \in hits : \A j \in hits : j <= i])

\* The namespace a parser starts from: loglevel from set_defaults(loglevel=WARNING),
\* every store_true flag False, no func.
DefaultNamespace == [loglevel |-> "WARNING", flags |-> {}, subcommand |-> None, func |-> None]

\* One occurrence of an option: -v/-q call the log level action, a flag is stored True.
ApplyOption(ns, opt) ==
    IF opt \in {OptV, OptQ}
    THEN [ns EXCEPT !.loglevel = LogLevelAdd(@, ConstOf(opt))]
    ELSE [ns EXCEPT !.flags = @ \cup {opt}]

IsOptionString(tok) == tok # <<>> /\ Head(tok) = "-"

\* The leading option strings of args applied in order; ok is FALSE at an option the
\* parser does not know (argparse's "unrecognized arguments").
RECURSIVE ConsumeOptionals(_, _, _)
ConsumeOptionals(options, ns, args) ==
    IF args = <<>> \/ ~IsOptionString(Head(args))
    THEN [ns |-> ns, rest |-> args, ok |-> TRUE]
    ELSE IF \E i \in 1..Len(options) : options[i] = Head(args)
         THEN ConsumeOptionals(options, ApplyOption(ns, Head(args)), Tail(args))
         ELSE [ns |-> ns, rest |-> args, ok |-> FALSE]

ParseExit == [ok |-> FALSE, ns |-> DefaultNamespace]

\* The namespace the sub-parser's pass starts from.  An argparse that parses the
\* subcommand into a namespace of its own starts it from the sub-parser's defaults;
\* one that shares the namespace only adds the defaults it lacks (func).
SubparserStart(ns, sub, fresh) ==
    IF fresh THEN [DefaultNamespace EXCEPT !.func = Some(sub.func)]
    ELSE [ns EXCEPT !.func = Some(sub.func)]

\* The namespace after the sub-parser's pass: a namespace of its own is copied,
\* attribute by attribute, over the top-level one.
SubparserMerge(ns, subns, fresh) ==
    IF fresh
    THEN [ns EXCEPT !.loglevel = subns.loglevel, !.flags = subns.flags, !.func = subns.func]
    ELSE subns

\* parse_args(args): the options before the subcommand token go to the top-level
\* parser, the token selects a sub-parser, which gets every argument after it.  A
\* missing token ("too few arguments"), an invalid choice and an argument no parser
\* takes all end the process.
ParseArgs(p, args, fresh) ==
    LET top == ConsumeOptionals(p.options, DefaultNamespace, args)
    IN  IF ~top.ok \/ top.rest = <<>> THEN ParseExit
        ELSE LET name == Head(top.rest)
                 sub == Choice(p, name)
             IN  IF ~IsSome(sub) THEN ParseExit
                 ELSE LET ns == [top.ns EXCEPT !.subcommand = Some(name)]
                          rest == ConsumeOptionals(Get(sub).options,
                                      SubparserStart(ns, Get(sub), fresh), Tail(top.rest))
                      IN  IF ~rest.ok \/ rest.rest # <<>> THEN ParseExit
                          ELSE [ok |-> TRUE, ns |-> SubparserMerge(ns, rest.ns, fresh)]

-----------------------------------------------------------------------------
(* configure_tool() *)

\* The numeric value of a logging level.
LevelNo(level) ==
    CASE level = "CRITICAL" -> 50
      [] level = "ERROR" -> 40
      [] level = "WARNING" -> 30
      [] level = "INFO" -> 20
      [] level = "DEBUG" -> 10

\* root_logger.addHandler(handler): a new StreamHandler with its formatter.
HandlersAfterConfigure(handlers, tty) ==
    Append(handlers, [stream |-> "stderr",
                      formatter |-> IF tty THEN "_ColorLogFormatter"
                                           ELSE "_NoColorLogFormatter"])

\* How often logging.info('Set log level to %s') reaches stderr: once per handler of
\* the root logger when INFO is enabled at the level just set.
InfoEmissions(handlers, level) ==
    IF LevelNo("INFO") >= LevelNo(level) THEN Len(handlers) ELSE 0

ConfigureTool(level) ==
    /\ rootLevel' = level
    /\ rootHandlers' = HandlersAfterConfigure(rootHandlers, stderrTty)
    /\ emitted' = InfoEmissions(rootHandlers', level)
    /\ UNCHANGED stderrTty

-----------------------------------------------------------------------------
(* main() *)

\* What a handler call can do: return, or raise KeyboardInterrupt or another error.
Outcomes == {"return", "KeyboardInterrupt", "ValueError"}

\* A main that caught every error of the handler, not KeyboardInterrupt alone.
Dispatch_CatchAll(outcome) ==
    IF outcome = "return" THEN [kind |-> "returned", code |-> {0}, exc |-> "none"]
    ELSE [kind |-> "returned", code |-> {1}, exc |-> "none"]

\* The try block around args.func(self, args).
Dispatch(outcome) ==
    IF outcome = "return" THEN [kind |-> "returned", code |-> {0}, exc |-> "none"]
    ELSE IF outcome = "KeyboardInterrupt"
         THEN [kind |-> "returned", code |-> {1}, exc |-> "none"]
         ELSE [kind |-> "raised", code |-> {}, exc |-> outcome]

ExitResult == [kind |-> "exited", code |-> {}, exc |-> "SystemExit"]

Main(argv, outcome) ==
    /\ runs < MaxRuns
    /\ runs' = runs + 1
    /\ LET config_args == ReadConfig(fsExists, fsContent)
           args == config_args \o argv
           built == BuiltParser(clsArguments, subcommands)
           parsed == ParseArgs(built, args, freshSubNamespace)
       IN  /\ parser' = Some(built)
           /\ subcommands' = CommandsAfterBuild(subcommands)
           /\ IF parsed.ok
              THEN /\ ConfigureTool(parsed.ns.loglevel)
                   /\ run' = [status |-> "dispatched", args |-> args, ns |-> parsed.ns,
                              outcome |-> outcome, result |-> Dispatch(outcome)]
              ELSE /\ UNCHANGED logVars
                   /\ run' = [status |-> "exited", args |-> args, ns |-> parsed.ns,
                              outcome |-> "none", result |-> ExitResult]
    /\ UNCHANGED <<definedAs, freshSubNamespace, sysArgv, classVars, fsVars, levelVars>>

-----------------------------------------------------------------------------
(* Initial states. *)

NoResult == [kind |-> "none", code |-> {}, exc |-> "none"]
NoRun == [status |-> "none", args |-> <<>>, ns |-> DefaultNamespace,
          outcome |-> "none", result |-> NoResult]

ClassInit ==
    /\ clsArguments = [c \in Classes |-> None]
    /\ decorated = [c \in Classes |-> <<>>]

ToolInitNone ==
    /\ subcommands = <<>>
    /\ definedAs = <<>>
    /\ parser = None

FsInitAbsent ==
    /\ fsExists = FALSE
    /\ fsContent = <<>>
    /\ fsMode = {}
    /\ umask = Umask022
    /\ written = None
    /\ readResult = <<>>
    /\ lastOp = "none"

\* A fresh process: the root logger has no handler and is at WARNING.
LogInit ==
    /\ rootHandlers = <<>>
    /\ rootLevel = "WARNING"
    /\ emitted = 0
    /\ stderrTty \in BOOLEAN

LevelInitNone ==
    /\ flagsLeft = <<>>
    /\ flagsDone = <<>>
    /\ nsLevel = "WARNING"

MainInitNone ==
    /\ freshSubNamespace = FALSE
    /\ sysArgv = <<>>
    /\ run = NoRun
    /\ runs = 0

\* The log level walk: any command line of at most MaxFlags -v/-q occurrences; the
\* namespace starts at the parser default, logging.WARNING.
InitLevel ==
    /\ flagsLeft \in SeqsUpTo({OptV, OptQ}, MaxFlags)
    /\ flagsDone = <<>>
    /\ nsLevel = "WARNING"
    /\ ClassInit /\ ToolInitNone /\ FsInitAbsent /\ LogInit /\ MainInitNone

NextLevel == LogLevelAddCall

SpecLevel == InitLevel /\ [][NextLevel]_vars

\* The config file: absent, or left by an earlier run or by the user with some mode.
InitConfig ==
    /\ fsExists \in BOOLEAN
    /\ fsContent \in (IF fsExists THEN {<<>>, <<"a", NL>>} ELSE {<<>>})
    /\ fsMode \in (IF fsExists THEN {Mode600, Mode644, Mode666} ELSE {{}})
    /\ umask \in {Umask000, Umask022, Umask077}
    /\ written = None
    /\ readResult = <<>>
    /\ lastOp = "none"
    /\ ClassInit /\ ToolInitNone /\ LogInit /\ LevelInitNone /\ MainInitNone

NextConfig ==
    \/ \E args \in SeqsUpTo(ConfigArgs, MaxArgs) : WriteConfigFile(args)
    \/ ReadConfigFile

SpecConfig == InitConfig /\ [][NextConfig]_vars

\* Class definitions and decorations, in any order.
InitClass ==
    /\ ClassInit
    /\ ToolInitNone /\ FsInitAbsent /\ LogInit /\ LevelInitNone /\ MainInitNone

NextClass == \E c \in Classes, decl \in ArgDecls : DecorateClass(c, decl)

SpecClass == InitClass /\ [][NextClass]_vars

\* The methods a tool class body can hold: def name / docstring / argument() and
\* subcommand(name, **kwargs) decorators.
FnNames == {<<"a">>, <<"b">>, <<"a", "b">>}
ExplicitNames == {None, Some(<<>>), Some(<<"a">>), Some(<<"b">>)}
Docs == {None, Some("docstring")}
NoKwargs == [k \in {} |-> None]
DescriptionKwargs == [k \in {"description"} |-> Some("explicit description")]
Methods ==
    [fn : FnNames, doc : Docs, arguments : {<<>>},
     name : ExplicitNames, kwargs : {NoKwargs, DescriptionKwargs}]

\* _TermtoolMetaclass.__new__: the class attributes that carry a _subcommand tag, in
\* the order the class dict yields them.
SubcommandsOf(methods) ==
    [i \in 1..Len(methods) |->
        SubcommandDecor(methods[i].name, methods[i].kwargs,
                        PlainFn(methods[i].fn, methods[i].doc, methods[i].arguments))]

\* A class body binds each name once.
DistinctFns(methods) ==
    \A i, j \in 1..Len(methods) : methods[i].fn = methods[j].fn => i = j

\* Building the parser of any tool, repeatedly.
InitBuild ==
    /\ definedAs \in {m \in SeqsUpTo(Methods, MaxMethods) : DistinctFns(m)}
    /\ subcommands = SubcommandsOf(definedAs)
    /\ parser = None
    /\ ClassInit /\ FsInitAbsent /\ LogInit /\ LevelInitNone /\ MainInitNone

NextBuild == BuildArgParserCall

SpecBuild == InitBuild /\ [][NextBuild]_vars

\* The tools main() is run on: one without subcommands, one with a single plain
\* subcommand, and one whose subcommands are declared out of order, one of them under
\* an explicit name, with a description and an argument of its own.
ToolNone == <<>>
ToolOne == <<[fn |-> <<"a">>, doc |-> Some("docstring"), arguments |-> <<>>,
              name |-> None, kwargs |-> NoKwargs]>>
ToolTwo == <<[fn |-> <<"a", "b">>, doc |-> Some("docstring"), arguments |-> <<OptA>>,
              name |-> Some(<<"b">>), kwargs |-> DescriptionKwargs],
             [fn |-> <<"a">>, doc |-> None, arguments |-> <<>>,
              name |-> None, kwargs |-> NoKwargs]>>

Tokens == {OptV, OptQ, OptG, OptA, <<"a">>, <<"b">>}

\* main() on any command line of at most MaxArgv tokens, with or without a config
\* file (one holding -q), with or without a global argument declared on the class,
\* under either argparse.
InitMain ==
    /\ definedAs \in {ToolNone, ToolOne, ToolTwo}
    /\ subcommands = SubcommandsOf(definedAs)
    /\ parser = None
    /\ clsArguments \in {[c \in Classes |-> None],
                         [c \in Classes |-> IF c = ToolClass THEN Some(<<OptG>>) ELSE None]}
    /\ decorated = [c \in Classes |-> IF IsSome(clsArguments[c]) THEN Get(clsArguments[c]) ELSE <<>>]
    /\ fsExists \in BOOLEAN
    /\ fsContent = (IF fsExists THEN FileText(<<OptQ>>) ELSE <<>>)
    /\ fsMode = (IF fsExists THEN Mode600 ELSE {})
    /\ umask = Umask022
    /\ written = None
    /\ readResult = <<>>
    /\ lastOp = "none"
    /\ LogInit /\ LevelInitNone
    /\ freshSubNamespace \in BOOLEAN
    /\ sysArgv \in SeqsUpTo(Tokens, MaxArgv)
    /\ run = NoRun
    /\ runs = 0

NextMain == \E outcome \in Outcomes : Main(sysArgv, outcome)

SpecMain == InitMain /\ [][NextMain]_vars

-----------------------------------------------------------------------------
(* The claims. *)

Range(seq) == {seq[i] : i \in 1..Len(seq)}

\* One step along LEVELS that stops at either end.
ClampedStep(level, opt) ==
    LET i == LevelIndex(level) + 1
        j == IF opt = OptV THEN (IF i < Len(LEVELS) THEN i + 1 ELSE i)
                           ELSE (IF i > 1 THEN i - 1 ELSE i)
    IN  LEVELS[j]

RECURSIVE ClampedWalk(_, _)
ClampedWalk(level, flags) ==
    IF flags = <<>> THEN level
    ELSE ClampedWalk(ClampedStep(level, Head(flags)), Tail(flags))

\* C1: after any sequence of -v/-q occurrences the namespace's level is WARNING
\* stepped once per occurrence along LEVELS, in order, stopping at CRITICAL and DEBUG.
C1_LevelIsClampedWalk == nsLevel = ClampedWalk("WARNING", flagsDone)

\* C2: once a handler is selected, main returns 0 when it returns, 1 when it raises
\* KeyboardInterrupt, and returns nothing when it raises another error, which
\* propagates.
C2_ResultFromHandlerAlone ==
    run.status = "dispatched" =>
        /\ run.outcome = "return" =>
              run.result = [kind |-> "returned", code |-> {0}, exc |-> "none"]
        /\ run.outcome = "KeyboardInterrupt" =>
              run.result = [kind |-> "returned", code |-> {1}, exc |-> "none"]
        /\ run.outcome \notin {"return", "KeyboardInterrupt"} =>
              run.result = [kind |-> "raised", code |-> {}, exc |-> run.outcome]

C2_Witness ==
    /\ run.status = "dispatched"
    /\ run.outcome = "ValueError"
    /\ run.result.kind = "raised"
    /\ runs = MaxRuns

\* C3: a read_config_file() that follows a write_config_file(args) returns args, and
\* a read without a file returns the empty list.
C3_ReadReturnsWritten ==
    lastOp = "read" =>
        /\ IsSome(written) => readResult = Get(written)
        /\ ~fsExists => readResult = <<>>

\* C4: after a write_config_file() call the config file grants nothing to group or
\* other, whether the call created the file or overwrote an existing one.
C4_OwnerOnlyAfterWrite == IsSome(written) => fsMode \cap GroupOther = {}

RECURSIVE LevelWalk(_, _)
LevelWalk(level, args) ==
    IF args = <<>> THEN level
    ELSE LevelWalk(IF Head(args) \in {OptV, OptQ}
                   THEN LogLevelAdd(level, ConstOf(Head(args))) ELSE level,
                   Tail(args))

\* C5: a global option has its effect on the namespace the handler gets wherever it
\* stands on the command line: a declared flag given anywhere is set, and every -v
\* and -q occurrence, before or after the subcommand token, has moved the level.
C5_GlobalOptionsKept ==
    run.status = "dispatched" =>
        /\ OptG \in Range(run.args) => OptG \in run.ns.flags
        /\ run.ns.loglevel = LevelWalk("WARNING", run.args)

\* The name a method is to be registered under: the decorator's, else the method's
\* own identifier (an empty name counts as none given).
ResolvedName(method) ==
    IF IsSome(method.name) /\ Get(method.name) # <<>> THEN Get(method.name) ELSE method.fn

\* C6: build_arg_parser registers one sub-parser per subcommand, each under its
\* resolved name, in lexicographic order of those names.
C6_RegisteredInNameOrder ==
    IsSome(parser) =>
        LET sp == Get(parser).subparsers
        IN  /\ Len(sp) = Len(definedAs)
            /\ \A i, j \in 1..Len(sp) : i < j => ~StrLess(sp[j].name, sp[i].name)
            /\ \A k \in 1..Len(definedAs) : \E i \in 1..Len(sp) :
                  sp[i].func = definedAs[k].fn /\ sp[i].name = ResolvedName(definedAs[k])

C6_Witness ==
    /\ IsSome(parser)
    /\ Len(definedAs) = 2
    /\ definedAs[1].fn = <<"a">> /\ definedAs[1].name = Some(<<"b">>)
    /\ definedAs[2].fn = <<"b">> /\ definedAs[2].name = Some(<<"a">>)
    /\ Get(parser).subparsers[1].func = <<"b">>

\* C7: the root logger never holds more than one handler of the framework, and no
\* record is written more than once.
C7_AtMostOneHandler == Len(rootHandlers) <= 1 /\ emitted <= 1

\* C8: build_arg_parser leaves the subcommands' tags as the decorators set them, and
\* every sub-parser of a subcommand declared with a description has that description.
C8_MetadataUnchanged ==
    /\ subcommands = SubcommandsOf(definedAs)
    /\ IsSome(parser) =>
          \A i \in 1..Len(Get(parser).subparsers), k \in 1..Len(definedAs) :
              (/\ Get(parser).subparsers[i].func = definedAs[k].fn
               /\ "description" \in DOMAIN definedAs[k].kwargs)
              => Get(parser).subparsers[i].description = definedAs[k].kwargs["description"]

\* C9: whenever parsing returns, the namespace main dispatches on carries a handler,
\* and it is the method registered under the namespace's subcommand selector.
C9_HandlerMatchesSelector ==
    run.status = "dispatched" =>
        /\ IsSome(run.ns.func)
        /\ IsSome(run.ns.subcommand)
        /\ \E k \in 1..Len(definedAs) :
              /\ definedAs[k].fn = Get(run.ns.func)
              /\ ResolvedName(definedAs[k]) = Get(run.ns.subcommand)

C9_Witness ==
    /\ run.status = "dispatched"
    /\ run.ns.subcommand = Some(<<"b">>)
    /\ run.ns.func = Some(<<"a", "b">>)
    /\ OptA \in run.ns.flags

\* C10: the arguments registered for a class are all declared on it or on one of
\* its bases: decorating another class adds none.
C10_OnlyOwnOrInherited ==
    \A c \in Classes :
        Range(ClassArguments(clsArguments, c))
            \subseteq UNION {Range(decorated[Mro(c)[i]]) : i \in 1..Len(Mro(c))}

====
